---- MODULE Spec2Model ----
(***************************************************************************)
(* pyracing: the PerformanceList aggregate (performance_list.py) and the   *)
(* Runner derived statistics built on it (runner.py).                      *)
(*                                                                         *)
(* Values.  Python's None is the empty tuple, a number n is <<n>> where a  *)
(* field or a result may be None, and the result of a true division a / b  *)
(* is the pair <<a, b>> (the exact quotient, compared by cross             *)
(* multiplication).  Dates are whole days; a timedelta is a number of days.*)
(***************************************************************************)
EXTENDS Integers, Sequences, FiniteSets

VARIABLES
    performances,        \* the sequence handed to PerformanceList(...)
    plist,               \* the PerformanceList built from it
    horse_performances,  \* runner.horse.performances
    jockey,              \* runner.jockey: None or <<jockey record>>
    race,                \* runner.race: meet date, meet track, distance
    runner,              \* the runner's own fields: weight, jockey_claiming, jockey_url
    cache,               \* runner.cache: statistic name -> stored value
    computed,            \* how often each statistic's computation body has run
    reads,               \* number of reads made of this runner so far
    ret                  \* the last operation and the value it returned

vars == <<performances, plist, horse_performances, jockey, race, runner,
          cache, computed, reads, ret>>

listVars == <<performances, plist>>
runnerVars == <<horse_performances, jockey, race, runner, cache, computed, reads>>

-----------------------------------------------------------------------------
(* Bounds of the model *)

MaxLen == 3      \* longest sequence handed to a PerformanceList / longest history
NumIds == 2      \* distinct records per date in the sorting inputs
MaxReads == 3    \* reads made of one runner instance

-----------------------------------------------------------------------------
(* Values *)

None == <<>>
Some(x) == <<x>>
IsNone(v) == v = <<>>
Val(v) == v[1]

\* a / b as Python's true division yields it: the exact quotient
Quot(a, b) == <<a, b>>
QuotEq(p, q) == p[1] * q[2] = q[1] * p[2]

SeqsUpTo(S, n) == UNION {[1..k -> S] : k \in 0..n}

RECURSIVE SumSeq(_)
SumSeq(s) == IF s = <<>> THEN 0 ELSE Head(s) + SumSeq(Tail(s))

RECURSIVE MaxSeq(_)
MaxSeq(s) == IF Len(s) = 1 THEN s[1]
             ELSE LET m == MaxSeq(Tail(s)) IN IF s[1] >= m THEN s[1] ELSE m

RECURSIVE MinSeq(_)
MinSeq(s) == IF Len(s) = 1 THEN s[1]
             ELSE LET m == MinSeq(Tail(s)) IN IF s[1] <= m THEN s[1] ELSE m

-----------------------------------------------------------------------------
(* Performance records *)

Performance(id, date, result, starting_price, momentum, runner_prize_money) ==
    [id |-> id, date |-> date, result |-> result,
     starting_price |-> starting_price, momentum |-> momentum,
     runner_prize_money |-> runner_prize_money,
     track |-> "Flemington", track_condition |-> <<"G", "o", "o", "d">>,
     distance |-> 1200, jockey_url |-> "jockey/1"]

-----------------------------------------------------------------------------
(* PerformanceList *)

\* list.sort(key=date, reverse=True): a stable sort, so an element goes after
\* every element already placed whose date is not smaller
InsertByDateBeforeTies(sorted, p) ==
    LET k == Cardinality({i \in 1..Len(sorted) : sorted[i].date > p.date})
    IN  SubSeq(sorted, 1, k) \o <<p>> \o SubSeq(sorted, k + 1, Len(sorted))

InsertByDate(sorted, p) ==
    LET k == Cardinality({i \in 1..Len(sorted) : sorted[i].date >= p.date})
    IN  SubSeq(sorted, 1, k) \o <<p>> \o SubSeq(sorted, k + 1, Len(sorted))

RECURSIVE SortByDateDescending(_, _)
SortByDateDescending(sorted, rest) ==
    IF rest = <<>> THEN sorted
    ELSE SortByDateDescending(InsertByDate(sorted, Head(rest)), Tail(rest))

PerformanceList(args) == SortByDateDescending(<<>>, args)

starts(self) == Len(self)

\* results up to the given one counted, not the given one alone
count_results_at_most(self, result) ==
    Len(SelectSeq(self, LAMBDA performance :
                            /\ ~IsNone(performance.result)
                            /\ Val(performance.result) <= result))

count_results(self, result) ==
    Len(SelectSeq(self, LAMBDA performance : performance.result = Some(result)))

wins(self) == count_results(self, 1)
seconds(self) == count_results(self, 2)
thirds(self) == count_results(self, 3)
fourths(self) == count_results(self, 4)

\* starts == 0 answered with 0 instead of divide_by_zero
calculate_percentage_zero(self, value) ==
    IF ~IsNone(value)
    THEN IF Len(self) > 0 THEN Quot(Val(value), Len(self)) ELSE Quot(0, 1)
    ELSE None

calculate_percentage(self, value) ==
    IF ~IsNone(value)
    THEN IF starts(self) > 0 THEN Quot(Val(value), starts(self)) ELSE None
    ELSE None

calculate_average(self, value) == calculate_percentage(self, value)

places(self) == wins(self) + seconds(self) + thirds(self)

win_pct(self) == calculate_percentage(self, Some(wins(self)))
second_pct(self) == calculate_percentage(self, Some(seconds(self)))
third_pct(self) == calculate_percentage(self, Some(thirds(self)))
fourth_pct(self) == calculate_percentage(self, Some(fourths(self)))
place_pct(self) == calculate_percentage(self, Some(places(self)))

get_momentums(self) ==
    LET kept == SelectSeq(self, LAMBDA performance : ~IsNone(performance.momentum))
    IN  [i \in 1..Len(kept) |-> Val(kept[i].momentum)]

\* the len(momentums) > 0 test left out
average_momentum_unguarded(self) ==
    calculate_percentage(self, Some(SumSeq(get_momentums(self))))

average_momentum(self) ==
    LET momentums == get_momentums(self)
    IN  IF Len(momentums) > 0
        THEN calculate_average(self, Some(SumSeq(momentums)))
        ELSE None

maximum_momentum(self) ==
    LET momentums == get_momentums(self)
    IN  IF Len(momentums) > 0 THEN Some(MaxSeq(momentums)) ELSE None

minimum_momentum(self) ==
    LET momentums == get_momentums(self)
    IN  IF Len(momentums) > 0 THEN Some(MinSeq(momentums)) ELSE None

average_starting_price(self) ==
    LET kept == SelectSeq(self, LAMBDA performance : ~IsNone(performance.starting_price))
        starting_prices == [i \in 1..Len(kept) |-> Val(kept[i].starting_price)]
    IN  IF Len(starting_prices) > 0
        THEN calculate_average(self, Some(SumSeq(starting_prices)))
        ELSE None

\* the len(runner_prize_monies) > 0 test left out
total_prize_money_unguarded(self) ==
    LET kept == SelectSeq(self,
                    LAMBDA performance : ~IsNone(performance.runner_prize_money))
    IN  Some(SumSeq([i \in 1..Len(kept) |-> Val(kept[i].runner_prize_money)]))

total_prize_money(self) ==
    LET kept == SelectSeq(self,
                    LAMBDA performance : ~IsNone(performance.runner_prize_money))
        runner_prize_monies == [i \in 1..Len(kept) |-> Val(kept[i].runner_prize_money)]
    IN  IF Len(runner_prize_monies) > 0
        THEN Some(SumSeq(runner_prize_monies))
        ELSE None

average_prize_money(self) == calculate_average(self, total_prize_money(self))

roi(self) ==
    LET kept == SelectSeq(self, LAMBDA performance :
                                    /\ performance.result = Some(1)
                                    /\ ~IsNone(performance.starting_price))
        winning_starting_prices == [i \in 1..Len(kept) |-> Val(kept[i].starting_price)]
    IN  IF Len(winning_starting_prices) > 0
        THEN calculate_percentage(self, Some(SumSeq(winning_starting_prices) - starts(self)))
        ELSE None

\* the counts are plain numbers; every other property is None, <<n>> or <<a, b>>
CountNames == {"starts", "wins", "seconds", "thirds", "fourths", "places"}
PercentageNames == {"win_pct", "second_pct", "third_pct", "fourth_pct", "place_pct"}
MomentumNames == {"average_momentum", "maximum_momentum", "minimum_momentum"}
PrizeNames == {"total_prize_money", "average_prize_money"}

\* getattr(self, name) for a property of PerformanceList
Property(self, name) ==
    CASE name = "starts" -> starts(self)
      [] name = "wins" -> wins(self)
      [] name = "seconds" -> seconds(self)
      [] name = "thirds" -> thirds(self)
      [] name = "fourths" -> fourths(self)
      [] name = "places" -> places(self)
      [] name = "win_pct" -> win_pct(self)
      [] name = "second_pct" -> second_pct(self)
      [] name = "third_pct" -> third_pct(self)
      [] name = "fourth_pct" -> fourth_pct(self)
      [] name = "place_pct" -> place_pct(self)
      [] name = "roi" -> roi(self)
      [] name = "average_starting_price" -> average_starting_price(self)
      [] name = "average_momentum" -> average_momentum(self)
      [] name = "maximum_momentum" -> maximum_momentum(self)
      [] name = "minimum_momentum" -> minimum_momentum(self)
      [] name = "total_prize_money" -> total_prize_money(self)
      [] name = "average_prize_money" -> average_prize_money(self)

-----------------------------------------------------------------------------
(* Runner: the derived statistics and their cache *)

REST_PERIOD == 90

\* Horse.AVERAGE_WEIGHT, the average weight of a racehorse
AVERAGE_WEIGHT == 500

HorseCollectionNames ==
    {"career", "on_track", "at_distance", "at_distance_on_track", "firm", "good",
     "soft", "heavy", "synthetic", "with_jockey", "since_rest", "on_up"}
JockeyCollectionNames ==
    {"jockey_career", "jockey_on_track", "jockey_at_distance",
     "jockey_at_distance_on_track", "jockey_firm", "jockey_good", "jockey_soft",
     "jockey_heavy", "jockey_synthetic"}
CollectionNames == HorseCollectionNames \cup JockeyCollectionNames
StatisticNames == CollectionNames \cup {"up"}

NotComputed == [name \in StatisticNames |-> 0]

\* str.upper(), a string being the tuple of its characters
UpperChar(c) ==
    CASE c = "a" -> "A" [] c = "c" -> "C" [] c = "d" -> "D" [] c = "e" -> "E"
      [] c = "f" -> "F" [] c = "g" -> "G" [] c = "h" -> "H" [] c = "i" -> "I"
      [] c = "m" -> "M" [] c = "n" -> "N" [] c = "o" -> "O" [] c = "r" -> "R"
      [] c = "s" -> "S" [] c = "t" -> "T" [] c = "v" -> "V" [] c = "y" -> "Y"
      [] OTHER -> c
Upper(str) == [i \in 1..Len(str) |-> UpperChar(str[i])]
StartsWith(str, prefix) ==
    /\ Len(prefix) <= Len(str)
    /\ SubSeq(str, 1, Len(prefix)) = prefix

TrackCondition(name) ==
    CASE name = "firm" -> <<"f", "i", "r", "m">>
      [] name = "good" -> <<"g", "o", "o", "d">>
      [] name = "soft" -> <<"s", "o", "f", "t">>
      [] name = "heavy" -> <<"h", "e", "a", "v", "y">>
      [] name = "synthetic" -> <<"s", "y", "n", "t", "h", "e", "t", "i", "c">>

\* A read works on s = [cache, computed], the runner's cache and the count of
\* computations made, and yields [s, v, raised]: the state it leaves, the
\* value it returns, and whether it raised instead of returning.

\* return self.cache[name]
Hit(s, name) == [s |-> s, v |-> s.cache[name], raised |-> FALSE]

\* self.cache[name] = v; return self.cache[name], at the end of name's computation
Store(s, name, v) ==
    [s |-> [cache |-> [k \in DOMAIN s.cache \cup {name} |->
                          IF k = name THEN v ELSE s.cache[k]],
            computed |-> [s.computed EXCEPT ![name] = @ + 1]],
     v |-> v, raised |-> FALSE]

\* the computation ran and its value was returned without being stored
Unstored(s, name, v) ==
    [s |-> [s EXCEPT !.computed[name] = @ + 1], v |-> v, raised |-> FALSE]

\* an exception leaves the method: nothing is stored
Raise(s) == [s |-> s, v |-> <<>>, raised |-> TRUE]

carrying ==
    IF ~IsNone(runner.weight) /\ ~IsNone(runner.jockey_claiming)
    THEN Some(Val(runner.weight) - Val(runner.jockey_claiming))
    ELSE None

actual_weight ==
    IF ~IsNone(carrying) THEN Some(Val(carrying) + AVERAGE_WEIGHT) ELSE None

career_unstored(s) ==
    IF "career" \in DOMAIN s.cache THEN Hit(s, "career")
    ELSE Unstored(s, "career",
                  PerformanceList(SelectSeq(horse_performances,
                      LAMBDA performance : performance.date < race.date)))

career(s) ==
    IF "career" \in DOMAIN s.cache THEN Hit(s, "career")
    ELSE Store(s, "career",
               PerformanceList(SelectSeq(horse_performances,
                   LAMBDA performance : performance.date < race.date)))

WithinDistance(performance) ==
    /\ race.distance - 100 <= performance.distance
    /\ performance.distance <= race.distance + 100

at_distance(s) ==
    IF "at_distance" \in DOMAIN s.cache THEN Hit(s, "at_distance")
    ELSE LET source == career(s)
         IN  Store(source.s, "at_distance",
                   PerformanceList(SelectSeq(source.v, WithinDistance)))

on_track(s) ==
    IF "on_track" \in DOMAIN s.cache THEN Hit(s, "on_track")
    ELSE LET source == career(s)
         IN  Store(source.s, "on_track",
                   PerformanceList(SelectSeq(source.v,
                       LAMBDA performance : performance.track = race.track)))

\* self.on_track is read once for every element of self.at_distance
at_distance_on_track(s) ==
    IF "at_distance_on_track" \in DOMAIN s.cache THEN Hit(s, "at_distance_on_track")
    ELSE LET source == at_distance(s)
             other == IF Len(source.v) > 0 THEN on_track(source.s) ELSE source
         IN  Store(other.s, "at_distance_on_track",
                   PerformanceList(SelectSeq(source.v,
                       LAMBDA performance :
                           \E i \in 1..Len(other.v) : other.v[i] = performance)))

get_performances_by_track_condition(s, track_condition) ==
    LET source == career(s)
    IN  [s |-> source.s,
         v |-> PerformanceList(SelectSeq(source.v,
                   LAMBDA performance :
                       StartsWith(Upper(performance.track_condition),
                                  Upper(track_condition)))),
         raised |-> FALSE]

\* firm, good, soft, heavy, synthetic
on_track_condition(s, name) ==
    IF name \in DOMAIN s.cache THEN Hit(s, name)
    ELSE LET list == get_performances_by_track_condition(s, TrackCondition(name))
         IN  Store(list.s, name, list.v)

with_jockey(s) ==
    IF "with_jockey" \in DOMAIN s.cache THEN Hit(s, "with_jockey")
    ELSE LET source == career(s)
         IN  Store(source.s, "with_jockey",
                   PerformanceList(SelectSeq(source.v,
                       LAMBDA performance : performance.jockey_url = runner.jockey_url)))

\* the test for a missing jockey left out: None has no performances
jockey_career_unchecked(s) ==
    IF "jockey_career" \in DOMAIN s.cache THEN Hit(s, "jockey_career")
    ELSE IF ~IsNone(jockey)
         THEN Store(s, "jockey_career",
                    PerformanceList(SelectSeq(Val(jockey).performances,
                        LAMBDA performance : performance.date < race.date)))
         ELSE Raise(s)

jockey_career(s) ==
    IF "jockey_career" \in DOMAIN s.cache THEN Hit(s, "jockey_career")
    ELSE IF ~IsNone(jockey)
         THEN Store(s, "jockey_career",
                    PerformanceList(SelectSeq(Val(jockey).performances,
                        LAMBDA performance : performance.date < race.date)))
         ELSE Store(s, "jockey_career", PerformanceList(<<>>))

jockey_at_distance(s) ==
    IF "jockey_at_distance" \in DOMAIN s.cache THEN Hit(s, "jockey_at_distance")
    ELSE LET source == jockey_career(s)
         IN  IF source.raised THEN source
             ELSE Store(source.s, "jockey_at_distance",
                        PerformanceList(SelectSeq(source.v, WithinDistance)))

jockey_on_track(s) ==
    IF "jockey_on_track" \in DOMAIN s.cache THEN Hit(s, "jockey_on_track")
    ELSE LET source == jockey_career(s)
         IN  IF source.raised THEN source
             ELSE Store(source.s, "jockey_on_track",
                        PerformanceList(SelectSeq(source.v,
                            LAMBDA performance : performance.track = race.track)))

jockey_at_distance_on_track(s) ==
    IF "jockey_at_distance_on_track" \in DOMAIN s.cache
    THEN Hit(s, "jockey_at_distance_on_track")
    ELSE LET source == jockey_at_distance(s)
             other == IF ~source.raised /\ Len(source.v) > 0
                      THEN jockey_on_track(source.s) ELSE source
         IN  IF other.raised THEN other
             ELSE Store(other.s, "jockey_at_distance_on_track",
                        PerformanceList(SelectSeq(source.v,
                            LAMBDA performance :
                                \E i \in 1..Len(other.v) : other.v[i] = performance)))

get_jockey_performances_by_track_condition(s, track_condition) ==
    LET source == jockey_career(s)
    IN  IF source.raised THEN source
        ELSE [s |-> source.s,
              v |-> PerformanceList(SelectSeq(source.v,
                        LAMBDA performance :
                            StartsWith(Upper(performance.track_condition),
                                       Upper(track_condition)))),
              raised |-> FALSE]

\* jockey_firm, jockey_good, jockey_soft, jockey_heavy, jockey_synthetic
jockey_on_track_condition(s, name, condition) ==
    IF name \in DOMAIN s.cache THEN Hit(s, name)
    ELSE LET list == get_jockey_performances_by_track_condition(s, TrackCondition(condition))
         IN  IF list.raised THEN list ELSE Store(list.s, name, list.v)
\* the loop of up: index runs over the career, most recent first
RECURSIVE UpLoopInclusive(_, _, _, _)
UpLoopInclusive(list, index, next_date, up) ==
    IF index > Len(list) THEN up
    ELSE IF next_date - list[index].date <= REST_PERIOD
         THEN UpLoopInclusive(list, index + 1, list[index].date, up + 1)
         ELSE up

RECURSIVE UpLoop(_, _, _, _)
UpLoop(list, index, next_date, up) ==
    IF index > Len(list) THEN up
    ELSE IF next_date - list[index].date < REST_PERIOD
         THEN UpLoop(list, index + 1, list[index].date, up + 1)
         ELSE up

\* the count started at 0: the race itself not counted
up_without_race(s) ==
    LET source == career(s)
    IN  Unstored(source.s, "up", UpLoop(source.v, 1, race.date, 0))

\* up is computed on every read: it is not kept in the cache
up(s) ==
    LET source == career(s)
    IN  Unstored(source.s, "up", UpLoop(source.v, 1, race.date, 1))

\* the loop of since_rest with next_date left at the race date
RECURSIVE SinceRestLoopFromRace(_, _, _, _)
SinceRestLoopFromRace(list, index, next_date, collected) ==
    IF index > Len(list) THEN collected
    ELSE IF next_date - list[index].date < REST_PERIOD
         THEN SinceRestLoopFromRace(list, index + 1, next_date,
                                    Append(collected, list[index]))
         ELSE collected

RECURSIVE SinceRestLoop(_, _, _, _)
SinceRestLoop(list, index, next_date, collected) ==
    IF index > Len(list) THEN collected
    ELSE IF next_date - list[index].date < REST_PERIOD
         THEN SinceRestLoop(list, index + 1, list[index].date,
                            Append(collected, list[index]))
         ELSE collected

since_rest(s) ==
    IF "since_rest" \in DOMAIN s.cache THEN Hit(s, "since_rest")
    ELSE LET source == career(s)
         IN  Store(source.s, "since_rest",
                   PerformanceList(SinceRestLoop(source.v, 1, race.date, <<>>)))

\* the loop of on_up: range(len(career) - 1, 0, -1) runs from the oldest
\* performance down to the second most recent one, list[2] here
RECURSIVE OnUpLoop(_, _, _, _, _, _)
OnUpLoop(list, index, previous_date, up_number, self_up, collected) ==
    IF index < 2 THEN collected
    ELSE LET number == IF \/ IsNone(previous_date)
                          \/ list[index].date - Val(previous_date) < REST_PERIOD
                       THEN up_number + 1 ELSE 1
         IN  OnUpLoop(list, index - 1, Some(list[index].date), number, self_up,
                      IF number = self_up THEN Append(collected, list[index])
                      ELSE collected)

\* self.up is read, and so computed, once in every iteration of the loop
on_up(s) ==
    IF "on_up" \in DOMAIN s.cache THEN Hit(s, "on_up")
    ELSE LET source == career(s)
             iterations == IF Len(source.v) > 1 THEN Len(source.v) - 1 ELSE 0
             self_up == up(source.s).v
             after == [source.s EXCEPT !.computed["up"] = @ + iterations]
         IN  Store(after, "on_up",
                   PerformanceList(OnUpLoop(source.v, Len(source.v), None, 0,
                                            self_up, <<>>)))

\* getattr(self, name) for a named collection
Collection(s, name) ==
    CASE name = "career" -> career(s)
      [] name = "at_distance" -> at_distance(s)
      [] name = "on_track" -> on_track(s)
      [] name = "at_distance_on_track" -> at_distance_on_track(s)
      [] name \in {"firm", "good", "soft", "heavy", "synthetic"} ->
             on_track_condition(s, name)
      [] name = "with_jockey" -> with_jockey(s)
      [] name = "since_rest" -> since_rest(s)
      [] name = "on_up" -> on_up(s)
      [] name = "jockey_career" -> jockey_career(s)
      [] name = "jockey_at_distance" -> jockey_at_distance(s)
      [] name = "jockey_on_track" -> jockey_on_track(s)
      [] name = "jockey_at_distance_on_track" -> jockey_at_distance_on_track(s)
      [] name = "jockey_firm" -> jockey_on_track_condition(s, name, "firm")
      [] name = "jockey_good" -> jockey_on_track_condition(s, name, "good")
      [] name = "jockey_soft" -> jockey_on_track_condition(s, name, "soft")
      [] name = "jockey_heavy" -> jockey_on_track_condition(s, name, "heavy")
      [] name = "jockey_synthetic" -> jockey_on_track_condition(s, name, "synthetic")

\* getattr(self, name) for a derived statistic
Statistic(s, name) == IF name = "up" THEN up(s) ELSE Collection(s, name)

\* x / actual_weight, x a number <<n>> or a quotient <<a, b>>
DividedBy(x, weight) ==
    IF Len(x) = 1 THEN Quot(x[1], weight) ELSE Quot(x[1], x[2] * weight)

\* the actual_weight > 0 test left out
calculate_expected_speed_any_weight(s, name) ==
    LET list == Collection(s, name)
        weight == actual_weight
        speed(x) == IF ~IsNone(weight) /\ ~IsNone(x)
                    THEN DividedBy(x, Val(weight)) ELSE None
    IN  IF list.raised THEN list
        ELSE [s |-> list.s,
              v |-> <<speed(minimum_momentum(list.v)), speed(maximum_momentum(list.v)),
                      speed(average_momentum(list.v))>>,
              raised |-> FALSE]

calculate_expected_speed(s, name) ==
    LET list == Collection(s, name)
        weight == actual_weight
        speed(x) == IF ~IsNone(weight) /\ Val(weight) > 0 /\ ~IsNone(x)
                    THEN DividedBy(x, Val(weight)) ELSE None
    IN  IF list.raised THEN list
        ELSE [s |-> list.s,
              v |-> <<speed(minimum_momentum(list.v)), speed(maximum_momentum(list.v)),
                      speed(average_momentum(list.v))>>,
              raised |-> FALSE]

-----------------------------------------------------------------------------
(* Inputs of the PerformanceList specifications *)

\* days since 2020-01-01 of 2020-01-01, 2020-06-01 and 2021-01-01
SortDates == {0, 152, 366}

\* records that differ in date and identity only
SortPerformances ==
    {Performance(id, date, None, None, None, None) : id \in 1..NumIds, date \in SortDates}

Results == {None, Some(1), Some(2), Some(3), Some(4)}
StartingPrices == {None, Some(2), Some(5)}

\* records that differ in result and starting price
ResultPerformances ==
    {Performance(1, 0, result, starting_price, None, None) :
        result \in Results, starting_price \in StartingPrices}

\* records that differ in starting price and momentum, or in prize money
AveragePerformances ==
    {Performance(1, 0, Some(2), starting_price, momentum, None) :
        starting_price \in {None, Some(2), Some(5)}, momentum \in {None, Some(0), Some(4)}}
    \cup {Performance(1, 0, Some(2), None, None, prize) : prize \in {Some(0), Some(40)}}

NoCache == [name \in {} |-> <<>>]

-----------------------------------------------------------------------------
(* PerformanceList: construction and property reads *)

\* the arguments of a PerformanceList(...) call about to be made
ListArguments(Domain) ==
    /\ performances \in SeqsUpTo(Domain, MaxLen)
    /\ plist = <<>>
    /\ ret = [op |-> "arguments", value |-> <<>>]

\* PerformanceList(performances)
Construct ==
    /\ ret.op = "arguments"
    /\ plist' = PerformanceList(performances)
    /\ ret' = [op |-> "PerformanceList", value |-> PerformanceList(performances)]
    /\ UNCHANGED <<performances, runnerVars>>

\* plist.<name>, a property read of the constructed list
GetProperty(Names) ==
    \E name \in Names :
        /\ ret.op # "arguments"
        /\ ret' = [op |-> name, value |-> Property(plist, name)]
        /\ UNCHANGED <<listVars, runnerVars>>

GetResultProperty == GetProperty(CountNames \cup PercentageNames \cup {"roi"})
GetAverageProperty ==
    GetProperty({"starts", "average_starting_price"} \cup MomentumNames \cup PrizeNames)

\* a runner nothing is read from
IdleRunner ==
    /\ horse_performances = <<>>
    /\ jockey = None
    /\ race = [date |-> 0, track |-> "Flemington", distance |-> 1200]
    /\ runner = [weight |-> None, jockey_claiming |-> None, jockey_url |-> "jockey/1"]
    /\ cache = NoCache
    /\ computed = NotComputed
    /\ reads = 0

InitSort == ListArguments(SortPerformances) /\ IdleRunner
NextSort == Construct
SpecSort == InitSort /\ [][NextSort]_vars

InitStats == ListArguments(ResultPerformances) /\ IdleRunner
NextStats == Construct \/ GetResultProperty
SpecStats == InitStats /\ [][NextStats]_vars

InitAverages == ListArguments(AveragePerformances) /\ IdleRunner
NextAverages == Construct \/ GetAverageProperty
SpecAverages == InitAverages /\ [][NextAverages]_vars

-----------------------------------------------------------------------------
(* Claims about PerformanceList *)

DatesOf(s) == [i \in 1..Len(s) |-> s[i].date]
OnDate(s, d) == SelectSeq(s, LAMBDA performance : performance.date = d)

\* C1: a constructed PerformanceList holds the records it was given (as many,
\* and the same records on every date), ordered by date descending, and the
\* records of one date keep the order they were given in; the dates
\* [2020-01-01, 2021-01-01, 2020-06-01] come out as [2021-01-01, 2020-06-01,
\* 2020-01-01].
C1_SortedStable ==
    ret.op = "PerformanceList" =>
        /\ ret.value = plist
        /\ Len(plist) = Len(performances)
        /\ \A i \in 1..(Len(plist) - 1) : plist[i].date >= plist[i + 1].date
        /\ \A d \in SortDates : OnDate(plist, d) = OnDate(performances, d)
        /\ DatesOf(performances) = <<0, 366, 152>> => DatesOf(plist) = <<366, 152, 0>>

\* a list given out of date order with two distinct records on its latest date
C1_Witness ==
    /\ ret.op = "PerformanceList"
    /\ Len(performances) = 3
    /\ performances[1].date < performances[2].date
    /\ performances[2].date = performances[3].date
    /\ performances[2].id # performances[3].id
    /\ plist = <<performances[2], performances[3], performances[1]>>

\* what the claims speak of, counted over the positions of plist
WithResult(r) == {i \in 1..Len(plist) : plist[i].result = Some(r)}
Priced == {i \in 1..Len(plist) : plist[i].starting_price # None}
WithMomentum == {i \in 1..Len(plist) : plist[i].momentum # None}
PriceTotal(S) ==
    SumSeq([i \in 1..Len(plist) |-> IF i \in S \cap Priced
                                    THEN plist[i].starting_price[1] ELSE 0])
MomentumTotal ==
    SumSeq([i \in 1..Len(plist) |-> IF i \in WithMomentum
                                    THEN plist[i].momentum[1] ELSE 0])

\* value is None when the list is empty and count / starts otherwise
IsPercentageOf(value, count) ==
    /\ IsNone(value) <=> Len(plist) = 0
    /\ Len(plist) > 0 => QuotEq(value, <<count, Len(plist)>>)

\* C2: win_pct is None exactly when starts == 0 and wins / starts otherwise;
\* likewise second_pct, third_pct, fourth_pct and place_pct with their counts.
C2_Percentages ==
    /\ ret.op = "win_pct" => IsPercentageOf(ret.value, Cardinality(WithResult(1)))
    /\ ret.op = "second_pct" => IsPercentageOf(ret.value, Cardinality(WithResult(2)))
    /\ ret.op = "third_pct" => IsPercentageOf(ret.value, Cardinality(WithResult(3)))
    /\ ret.op = "fourth_pct" => IsPercentageOf(ret.value, Cardinality(WithResult(4)))
    /\ ret.op = "place_pct" =>
           IsPercentageOf(ret.value, Cardinality(WithResult(1) \cup WithResult(2)
                                                 \cup WithResult(3)))

\* place_pct read of three starts: a win, a third and a run with no result
C2_Witness ==
    /\ ret.op = "place_pct"
    /\ Len(plist) = 3
    /\ \E i, j, k \in 1..3 : /\ plist[i].result = Some(1)
                             /\ plist[j].result = Some(3)
                             /\ plist[k].result = None
    /\ ret.value = Quot(2, 3)

\* C3: with starts > 0, roi is ((sum of starting_price over the records with
\* result 1 and a starting price) - starts) / starts, the empty sum being 0:
\* never None, and -1 for three starts none of which is a priced win.
C3_Roi ==
    (ret.op = "roi" /\ Len(plist) > 0) =>
        /\ ~IsNone(ret.value)
        /\ QuotEq(ret.value, <<PriceTotal(WithResult(1)) - Len(plist), Len(plist)>>)

\* C8: average_starting_price and average_momentum are None when no record
\* has the value, and otherwise the sum of the values present divided by
\* starts, the number of all records of the list (those without the value
\* included); maximum_momentum and minimum_momentum are the largest and the
\* smallest momentum present, None when there is none.
C8_Averages ==
    /\ ret.op = "average_starting_price" =>
           IF Priced = {} THEN IsNone(ret.value)
           ELSE /\ ~IsNone(ret.value)
                /\ QuotEq(ret.value, <<PriceTotal(Priced), Len(plist)>>)
    /\ ret.op = "average_momentum" =>
           IF WithMomentum = {} THEN IsNone(ret.value)
           ELSE /\ ~IsNone(ret.value)
                /\ QuotEq(ret.value, <<MomentumTotal, Len(plist)>>)
    /\ ret.op = "maximum_momentum" =>
           IF WithMomentum = {} THEN IsNone(ret.value)
           ELSE /\ \E i \in WithMomentum : ret.value = plist[i].momentum
                /\ \A i \in WithMomentum : ret.value[1] >= plist[i].momentum[1]
    /\ ret.op = "minimum_momentum" =>
           IF WithMomentum = {} THEN IsNone(ret.value)
           ELSE /\ \E i \in WithMomentum : ret.value = plist[i].momentum
                /\ \A i \in WithMomentum : ret.value[1] <= plist[i].momentum[1]

\* C8 as claimed: the averages divide by the number of records that have the value
C8_AveragesOverPresent ==
    /\ (ret.op = "average_starting_price" /\ Priced # {}) =>
           /\ ~IsNone(ret.value)
           /\ QuotEq(ret.value, <<PriceTotal(Priced), Cardinality(Priced)>>)
    /\ (ret.op = "average_momentum" /\ WithMomentum # {}) =>
           /\ ~IsNone(ret.value)
           /\ QuotEq(ret.value, <<MomentumTotal, Cardinality(WithMomentum)>>)

\* average_momentum read of a list in which one record of three has no momentum
C8_Witness ==
    /\ ret.op = "average_momentum"
    /\ Len(plist) = 3
    /\ Cardinality(WithMomentum) = 2
    /\ MomentumTotal = 8
    /\ ret.value = Quot(8, 3)

-----------------------------------------------------------------------------
(* Runner: inputs, reads and specifications *)

\* days since 2024-01-01 of 2024-01-01, 2024-01-20, 2024-03-01 and 2024-03-02,
\* and the day 90 days after 2024-03-01
CareerDates == {0, 19, 60, 61, 150}

\* 2024-03-15, and the days 90 and 91 days after 2024-03-01
RaceDates == {74, 150, 151}

\* the horse's performances in the order the data source gives them, each a
\* record of its own
History(dates) == [i \in 1..Len(dates) |-> Performance(i, dates[i], None, None, None, None)]
Histories == {History(dates) : dates \in SeqsUpTo(CareerDates, MaxLen)}

Ride(id, date, track, track_condition, distance, jockey_url) ==
    [Performance(id, date, Some(2), None, Some(4), None) EXCEPT
        !.track = track, !.track_condition = track_condition,
        !.distance = distance, !.jockey_url = jockey_url]

\* a horse's history that tells the named collections apart
SampleHistory ==
    <<Ride(1, 10, "Flemington", <<"G", "o", "o", "d", " ", "3">>, 1200, "jockey/1"),
      Ride(2, 95, "Caulfield", <<"S", "O", "F", "T">>, 1250, "jockey/2"),
      Ride(3, 50, "Flemington", <<"h", "e", "a", "v", "y", "8">>, 1600, "jockey/1"),
      Ride(4, 100, "Flemington", <<"F", "i", "r", "m">>, 1200, "jockey/1")>>

\* a jockey's mounts
SampleJockey ==
    [performances |->
        <<Ride(5, 20, "Flemington", <<"S", "y", "n", "t", "h", "e", "t", "i", "c">>,
               1100, "jockey/1"),
          Ride(6, 70, "Caulfield", <<"F", "i", "r", "m", " ", "2">>, 2000, "jockey/1"),
          Ride(1, 10, "Flemington", <<"G", "o", "o", "d", " ", "3">>, 1200, "jockey/1")>>]

Weights == {None, Some(55), Some(0 - AVERAGE_WEIGHT)}
Claimings == {None, Some(0), Some(3)}

\* the horse's performances of the expected-speed inputs differ in momentum
MomentumHistory(momentums) ==
    [i \in 1..Len(momentums) |->
        Performance(i, 20 * i, Some(2), None, momentums[i], None)]
MomentumHistories ==
    {MomentumHistory(m) : m \in SeqsUpTo({None, Some(0), Some(4)}, MaxLen)}

\* a runner as constructed: nothing read, nothing cached
NewRunner ==
    /\ performances = <<>>
    /\ plist = <<>>
    /\ cache = NoCache
    /\ computed = NotComputed
    /\ reads = 0
    /\ ret = [op |-> "Runner", value |-> <<>>, raised |-> FALSE]

\* runner.<name>, a read of a derived statistic
GetStatistic(Names) ==
    \E name \in Names :
        /\ reads < MaxReads
        /\ LET r == Statistic([cache |-> cache, computed |-> computed], name)
           IN  /\ cache' = r.s.cache
               /\ computed' = r.s.computed
               /\ ret' = [op |-> name, value |-> r.v, raised |-> r.raised]
        /\ reads' = reads + 1
        /\ UNCHANGED <<listVars, horse_performances, jockey, race, runner>>

\* runner.calculate_expected_speed(name)
CalculateExpectedSpeed(Names) ==
    \E name \in Names :
        /\ reads < MaxReads
        /\ LET r == calculate_expected_speed([cache |-> cache, computed |-> computed], name)
           IN  /\ cache' = r.s.cache
               /\ computed' = r.s.computed
               /\ ret' = [op |-> "calculate_expected_speed", name |-> name,
                          value |-> r.v, raised |-> r.raised]
        /\ reads' = reads + 1
        /\ UNCHANGED <<listVars, horse_performances, jockey, race, runner>>

GetRestStatistic == GetStatistic({"career", "up", "since_rest", "on_up"})
GetAnyStatistic == GetStatistic(StatisticNames)
CalculateSpeed == CalculateExpectedSpeed({"career", "since_rest", "jockey_career"})

\* the rest cycle: histories of any dates, read against a race date
InitRest ==
    /\ NewRunner
    /\ horse_performances \in Histories
    /\ race \in {[date |-> date, track |-> "Flemington", distance |-> 1200] :
                    date \in RaceDates}
    /\ jockey = None
    /\ runner = [weight |-> None, jockey_claiming |-> None, jockey_url |-> "jockey/1"]
NextRest == GetRestStatistic
SpecRest == InitRest /\ [][NextRest]_vars

\* the cache: every statistic of one runner, with and without a known jockey
InitRunner ==
    /\ NewRunner
    /\ horse_performances \in {<<>>, SampleHistory}
    /\ race = [date |-> 100, track |-> "Flemington", distance |-> 1200]
    /\ jockey \in {None, Some(SampleJockey)}
    /\ runner = [weight |-> Some(55), jockey_claiming |-> Some(0), jockey_url |-> "jockey/1"]
NextRunner == GetAnyStatistic
SpecRunner == InitRunner /\ [][NextRunner]_vars

\* expected speeds: momentums and weights of any kind
InitSpeed ==
    /\ NewRunner
    /\ horse_performances \in MomentumHistories
    /\ race = [date |-> 100, track |-> "Flemington", distance |-> 1200]
    /\ jockey = None
    /\ runner \in {[weight |-> weight, jockey_claiming |-> claiming,
                    jockey_url |-> "jockey/1"] :
                      weight \in Weights, claiming \in Claimings}
NextSpeed == CalculateSpeed
SpecSpeed == InitSpeed /\ [][NextSpeed]_vars

-----------------------------------------------------------------------------
(* Claims about the rest cycle *)

\* the horse's performances before the race, most recent first
PriorRuns ==
    PerformanceList(SelectSeq(horse_performances,
        LAMBDA performance : performance.date < race.date))

\* days from run i of list to the next later run, the race for the first
GapAfter(list, i) ==
    IF i = 1 THEN race.date - list[1].date ELSE list[i - 1].date - list[i].date

\* length of the longest prefix of list every gap of which is under 90 days
Streak(list) ==
    CHOOSE k \in 0..Len(list) :
        /\ \A i \in 1..k : GapAfter(list, i) < 90
        /\ k < Len(list) => GapAfter(list, k + 1) >= 90

\* run number since rest of run i, counted from the oldest run of list
RECURSIVE RunNumber(_, _)
RunNumber(list, i) ==
    IF i = Len(list) THEN 1
    ELSE IF list[i].date - list[i + 1].date < 90 THEN RunNumber(list, i + 1) + 1
         ELSE 1

Elements(list) == {list[i] : i \in 1..Len(list)}

\* C4: on_up holds exactly the career performances whose run number since
\* rest, counted from the oldest performance to the most recent one included,
\* equals the runner's up.
C4_OnUp ==
    ret.op = "on_up" =>
        /\ Elements(ret.value) =
               {PriorRuns[i] : i \in {j \in 1..Len(PriorRuns) :
                                         RunNumber(PriorRuns, j) = 1 + Streak(PriorRuns)}}
        /\ Len(ret.value) = Cardinality(Elements(ret.value))

\* C5: up is 1 + the length of the longest prefix of the career, most recent
\* first, in which every run is less than 90 days before the next later run
\* (the race for the first): at least 1, 1 for an empty career, and 4 for runs
\* on 2024-01-01, 2024-01-20 and 2024-03-01 before a race on 2024-03-15.
C5_Up ==
    ret.op = "up" =>
        /\ ret.value = 1 + Streak(PriorRuns)
        /\ ret.value >= 1
        /\ PriorRuns = <<>> => ret.value = 1
        /\ (race.date = 74 /\ DatesOf(PriorRuns) = <<60, 19, 0>>) => ret.value = 4

\* up read for a race one day after a run that came exactly 90 days after the
\* run before it
C5_Witness ==
    /\ ret.op = "up"
    /\ race.date = 151
    /\ DatesOf(PriorRuns) = <<150, 60, 19>>
    /\ ret.value = 2

\* C6: since_rest is the longest prefix of the career, most recent first, in
\* which every gap between consecutive run dates, the first taken from the
\* race date, is under 90 days; with no gap of 90 days or more it is the
\* whole career.
C6_SinceRest ==
    ret.op = "since_rest" =>
        /\ ret.value = SubSeq(PriorRuns, 1, Streak(PriorRuns))
        /\ (\A i \in 1..Len(PriorRuns) : GapAfter(PriorRuns, i) < 90) =>
               ret.value = PriorRuns

\* since_rest read of a career of three in which the most recent run came
\* exactly 90 days after the run before it
C6_Witness ==
    /\ ret.op = "since_rest"
    /\ race.date = 151
    /\ DatesOf(PriorRuns) = <<150, 60, 19>>
    /\ DatesOf(ret.value) = <<150>>

-----------------------------------------------------------------------------
(* Claims about the cache *)

\* C7: each named collection of a runner is computed at most once: its
\* computation runs on the first read only, the stored value never changes,
\* and every later read returns it.  up is not stored: every read of up
\* computes it again.
C7_CollectionsComputedOnce ==
    [][/\ \A name \in CollectionNames :
              /\ computed'[name] <= 1
              /\ name \in DOMAIN cache =>
                     /\ name \in DOMAIN cache'
                     /\ cache'[name] = cache[name]
                     /\ computed'[name] = computed[name]
                     /\ ret'.op = name => ret'.value = cache[name]
       /\ ret'.op = "up" => computed'["up"] = computed["up"] + 1]_vars

\* C7 as claimed: up too is computed at most once
C7_EveryStatisticComputedOnce ==
    \A name \in StatisticNames : computed[name] <= 1

\* career read twice, and nothing else read
C7_Witness ==
    /\ reads = 2
    /\ ret.op = "career"
    /\ Len(ret.value) = 3
    /\ DOMAIN cache = {"career"}
    /\ computed["career"] = 1
    /\ computed["up"] = 0

NullableNames ==
    PercentageNames \cup MomentumNames \cup PrizeNames
    \cup {"roi", "average_starting_price"}

\* C10: with no known jockey every jockey collection is read, in any order,
\* as an empty collection and without raising, and every percentage, average,
\* total and roi of it is None.
C10_NoJockey ==
    (IsNone(jockey) /\ ret.op \in JockeyCollectionNames) =>
        /\ ~ret.raised
        /\ ret.value = <<>>
        /\ cache[ret.op] = <<>>
        /\ \A name \in NullableNames : IsNone(Property(ret.value, name))

\* jockey_at_distance_on_track read first, of a runner with no known jockey
C10_Witness ==
    /\ IsNone(jockey)
    /\ reads = 1
    /\ ret.op = "jockey_at_distance_on_track"
    /\ ~ret.raised
    /\ ret.value = <<>>
    /\ DOMAIN cache = {"jockey_career", "jockey_at_distance", "jockey_at_distance_on_track"}

-----------------------------------------------------------------------------
(* Claims about the expected speeds *)

\* weight - jockey_claiming + AVERAGE_WEIGHT where both are known
Carried ==
    IF runner.weight = None \/ runner.jockey_claiming = None THEN None
    ELSE Some(runner.weight[1] - runner.jockey_claiming[1] + AVERAGE_WEIGHT)

\* speed is None when the statistic or a positive weight is missing, and
\* statistic / actual_weight otherwise
IsSpeedOf(speed, statistic) ==
    IF IsNone(statistic) \/ IsNone(Carried) \/ Carried[1] <= 0
    THEN IsNone(speed)
    ELSE /\ ~IsNone(speed)
         /\ QuotEq(speed, IF Len(statistic) = 1
                          THEN <<statistic[1], Carried[1]>>
                          ELSE <<statistic[1], statistic[2] * Carried[1]>>)

\* C9: calculate_expected_speed(name) returns (minimum_momentum / actual_weight,
\* maximum_momentum / actual_weight, average_momentum / actual_weight) of the
\* named collection, a component being None exactly when its statistic is
\* None or actual_weight is None or not positive; with actual_weight None it
\* returns (None, None, None), and it does not raise.
C9_ExpectedSpeed ==
    ret.op = "calculate_expected_speed" =>
        /\ ~ret.raised
        /\ Len(ret.value) = 3
        /\ IsSpeedOf(ret.value[1], minimum_momentum(cache[ret.name]))
        /\ IsSpeedOf(ret.value[2], maximum_momentum(cache[ret.name]))
        /\ IsSpeedOf(ret.value[3], average_momentum(cache[ret.name]))
        /\ IsNone(Carried) => ret.value = <<None, None, None>>

\* expected speeds of a career with momentums 0 and 4 and one unknown, the
\* runner carrying a weight equal to minus the average weight of a horse
C9_Witness ==
    /\ ret.op = "calculate_expected_speed"
    /\ ret.name = "career"
    /\ Len(cache["career"]) = 3
    /\ minimum_momentum(cache["career"]) = Some(0)
    /\ maximum_momentum(cache["career"]) = Some(4)
    /\ \E i \in 1..3 : IsNone(cache["career"][i].momentum)
    /\ Carried = Some(0)
    /\ ret.value = <<None, None, None>>

-----------------------------------------------------------------------------
(* Claims about prize money *)

WithPrize == {i \in 1..Len(plist) : plist[i].runner_prize_money # None}
PrizeTotal ==
    SumSeq([i \in 1..Len(plist) |-> IF i \in WithPrize
                                    THEN plist[i].runner_prize_money[1] ELSE 0])

\* C11: total_prize_money is the sum of the runner_prize_money values present
\* when some record has one, and None (not 0) when none has, as in an empty
\* list; average_prize_money is total_prize_money / starts, and None whenever
\* total_prize_money is None or starts == 0.
C11_PrizeMoney ==
    /\ ret.op = "total_prize_money" =>
           IF WithPrize = {} THEN IsNone(ret.value)
           ELSE ret.value = Some(PrizeTotal)
    /\ ret.op = "average_prize_money" =>
           IF WithPrize = {} \/ Len(plist) = 0 THEN IsNone(ret.value)
           ELSE /\ ~IsNone(ret.value)
                /\ QuotEq(ret.value, <<PrizeTotal, Len(plist)>>)

\* average_prize_money read of three starts: prize money 40, prize money 0
\* and one start whose prize money is unknown
C11_Witness ==
    /\ ret.op = "average_prize_money"
    /\ Len(plist) = 3
    /\ \E i, j, k \in 1..3 : /\ plist[i].runner_prize_money = Some(40)
                             /\ plist[j].runner_prize_money = Some(0)
                             /\ plist[k].runner_prize_money = None
    /\ ret.value = Quot(40, 3)

-----------------------------------------------------------------------------
(* Claims about the counts *)

\* C12: starts is the number of records, the count of a result is the number
\* of records with that result, places is wins + seconds + thirds, and wins +
\* seconds + thirds + fourths is at most starts: a record with no result is
\* counted in starts and in no other count.
C12_Counts ==
    /\ ret.op = "starts" =>
           /\ ret.value = Len(performances)
           /\ ret.value = Cardinality(DOMAIN plist)
    /\ ret.op = "wins" => ret.value = Cardinality(WithResult(1))
    /\ ret.op = "seconds" => ret.value = Cardinality(WithResult(2))
    /\ ret.op = "thirds" => ret.value = Cardinality(WithResult(3))
    /\ ret.op = "fourths" => ret.value = Cardinality(WithResult(4))
    /\ \A r \in 1..4 : count_results(plist, r) = Cardinality(WithResult(r))
    /\ ret.op = "places" =>
           /\ ret.value = wins(plist) + seconds(plist) + thirds(plist)
           /\ ret.value = Cardinality(WithResult(1) \cup WithResult(2)
                                      \cup WithResult(3))
    /\ wins(plist) + seconds(plist) + thirds(plist) + fourths(plist) <= starts(plist)
    /\ starts(plist) - (wins(plist) + seconds(plist) + thirds(plist) + fourths(plist))
           >= Cardinality({i \in 1..Len(plist) : plist[i].result = None})

\* places read of three starts: a second, a fourth and a run with no result
C12_Witness ==
    /\ ret.op = "places"
    /\ Len(plist) = 3
    /\ \E i, j, k \in 1..3 : /\ plist[i].result = Some(2)
                             /\ plist[j].result = Some(4)
                             /\ plist[k].result = None
    /\ ret.value = 1
    /\ starts(plist) = 3

-----------------------------------------------------------------------------
(* Claims relating up and since_rest *)

\* C13: for every career and race date since_rest holds up - 1 performances,
\* the walks of up and of since_rest stopping at the same performance;
\* since_rest is empty exactly when up == 1.
C13_SinceRestIsUpLessOne ==
    /\ (ret.op = "up" /\ "since_rest" \in DOMAIN cache) =>
           /\ Len(cache["since_rest"]) = ret.value - 1
           /\ cache["since_rest"] = <<>> <=> ret.value = 1
    /\ ret.op = "since_rest" =>
           LET now == up([cache |-> cache, computed |-> computed]).v
           IN  /\ Len(ret.value) = now - 1
               /\ ret.value = <<>> <=> now = 1
               /\ ret.value = SubSeq(cache["career"], 1, now - 1)

\* since_rest read, then up, for a race the day after two runs of one day
\* that came 90 days after the run before them
C13_Witness ==
    /\ reads = 2
    /\ ret.op = "up"
    /\ race.date = 151
    /\ DatesOf(PriorRuns) = <<150, 150, 60>>
    /\ "since_rest" \in DOMAIN cache
    /\ Len(cache["since_rest"]) = 2
    /\ ret.value = 3

====
